---- MODULE Spec2Model ----
(***************************************************************************)
(* A model of the conversation session engine of deepseek-multiturn:       *)
(*   - DeepSeekChat (src/deepseek.py): the turn history, role validation,  *)
(*     the auto-mode toggle, chat() with its auto-response loop;           *)
(*   - DeepSeekChat._stream_request: the SSE line decoder, on raw lines    *)
(*     and on whole frames of every shape;                                 *)
(*   - _process_chat_round event by event, the request payloads,           *)
(*     save_conversation / load_conversation;                              *)
(*   - the /chat route of the web front end (src/app.py).                  *)
(*                                                                         *)
(* Text is a sequence of characters.  Python's None is the value NoneValue *)
(* and a transport failure (RuntimeError "API Error") is the stream        *)
(* outcome ApiError; neither is a text a stream can carry.                 *)
(***************************************************************************)
EXTENDS Integers, Sequences, FiniteSets, TLC

VARIABLES
    messages,         \* self.messages: the turn history
    auto_mode,        \* self.auto_mode
    auto_iterations,  \* self.auto_iterations
    show_reasoning,   \* self.show_reasoning
    pc,               \* where chat() stands: "idle" when no call is running
    response_text,    \* chat()'s local response_text
    auto_response,    \* chat()'s local auto_response
    retry_count,      \* chat()'s local retry_count
    calls,            \* number of chat() calls made so far
    auto_rounds,      \* completion rounds run after an auto-generated turn, this call
    requests_sent,    \* completion requests opened by the running chat() call
    buffer,           \* _stream_request's local buffer
    events,           \* the events _stream_request has yielded so far
    stream_done,      \* the decoder's loop has ended (break on [DONE])
    consumed,         \* the lines the decoder's loop has taken from the transport
    prev_buffer,      \* the buffer as it was before the last line was taken
    saved,            \* the conversation file written by save_conversation
    snapshot,         \* the state the file was saved from, until it is loaded back
    received,         \* the events the running request has taken from its stream
    full_response,    \* the running request's local full_response
    displayed,        \* the reasoning fragments printed by the running request
    web_pc,           \* where each /chat request of the web front end stands
    web_iter          \* each /chat request's local auto_iterations

vars == <<messages, auto_mode, auto_iterations, show_reasoning, pc,
          response_text, auto_response, retry_count, calls, auto_rounds, requests_sent,
          buffer, events, stream_done, consumed, prev_buffer,
          saved, snapshot, received, full_response, displayed, web_pc, web_iter>>

sessionVars == <<messages, auto_mode, auto_iterations, show_reasoning, pc,
                 response_text, auto_response, retry_count, calls, auto_rounds, requests_sent>>

decoderVars == <<buffer, events, stream_done, consumed, prev_buffer>>

fileVars == <<saved, snapshot>>

roundVars == <<received, full_response, displayed>>

webVars == <<web_pc, web_iter>>

(***************************************************************************)
(* Bounds of the model.                                                    *)
(***************************************************************************)
MaxCalls == 2

(***************************************************************************)
(* Program constants (DeepSeekChat.__init__).                              *)
(***************************************************************************)
max_auto_iterations == 3

max_auto_retries == 2

(***************************************************************************)
(* Texts.                                                                  *)
(***************************************************************************)
NoneValue == <<"None">>

ApiError == <<"ApiError">>

\* The texts a completion stream may join up to: nothing, blank, or a word.
ReplyTexts == {<<>>, <<" ">>, <<"a">>}

\* What a stream can end in: a text, or a transport failure.
Outcomes == ReplyTexts \cup {ApiError}

\* The CLI passes a stripped, non-empty line to chat().
UserInputs == {<<"a">>}

\* Python truthiness of an Optional[str]: None and "" are falsy.
Falsy(t) == t = NoneValue \/ t = <<>>

RECURSIVE LStrip(_)
LStrip(t) == IF t # <<>> /\ Head(t) = " " THEN LStrip(Tail(t)) ELSE t

RECURSIVE RStrip(_)
RStrip(t) ==
    IF t # <<>> /\ t[Len(t)] = " " THEN RStrip(SubSeq(t, 1, Len(t) - 1)) ELSE t

\* str.strip()
Strip(t) == RStrip(LStrip(t))

(***************************************************************************)
(* Session State Manager.                                                  *)
(***************************************************************************)
Turn(role, content, auto) ==
    [role |-> role, content |-> content, is_auto_generated |-> auto]

\* Faulty variant: the validation never raises.
ValidateMessageSequence_NoCheck(msgs, new_role) == TRUE

\* _validate_message_sequence: TRUE when it returns, FALSE when it raises.
ValidateMessageSequence(msgs, new_role) ==
    ~(msgs # <<>> /\ msgs[Len(msgs)].role = new_role)

\* Faulty variant: the filter keeps every turn.
CleanAutoMessages_KeepAll(msgs) == msgs

\* _clean_auto_messages
CleanAutoMessages(msgs) ==
    SelectSeq(msgs, LAMBDA m : ~m.is_auto_generated)

\* chat()'s outer except handler: pop the last turn when it is a user turn.
RollBack(msgs) ==
    IF msgs # <<>> /\ msgs[Len(msgs)].role = "user"
    THEN SubSeq(msgs, 1, Len(msgs) - 1)
    ELSE msgs

(***************************************************************************)
(* Completion rounds.                                                      *)
(***************************************************************************)
\* _process_chat_round's return value: None on any exception, else the joined text.
ProcessChatRoundResult(msgs, outcome) ==
    IF ~ValidateMessageSequence(msgs, "assistant") \/ outcome = ApiError
    THEN NoneValue
    ELSE outcome

\* _process_chat_round's effect on the history.
ProcessChatRoundMessages(msgs, outcome) ==
    IF Falsy(ProcessChatRoundResult(msgs, outcome))
    THEN msgs
    ELSE Append(msgs, Turn("assistant", ProcessChatRoundResult(msgs, outcome), FALSE))

\* _generate_auto_response's return value: None on any exception, else the
\* stripped joined text.  It never changes self.messages.
GenerateAutoResponse(msgs, outcome) ==
    IF ~ValidateMessageSequence(msgs, "user") \/ outcome = ApiError
    THEN NoneValue
    ELSE Strip(outcome)

\* Both request functions validate first and open their request only if the
\* validation passes: the number of requests one call of them opens.
RequestOpened(msgs, new_role) ==
    IF ValidateMessageSequence(msgs, new_role) THEN 1 ELSE 0

\* Faulty variant: the iteration count is compared with <= instead of <.
LoopCondition_OffByOne ==
    /\ auto_mode
    /\ auto_iterations <= max_auto_iterations
    /\ response_text # NoneValue

\* Faulty variant: the loop does not look at auto_mode.
LoopCondition_IgnoresMode ==
    /\ auto_iterations < max_auto_iterations
    /\ response_text # NoneValue

\* The condition of chat()'s while loop.
LoopCondition ==
    /\ auto_mode
    /\ auto_iterations < max_auto_iterations
    /\ response_text # NoneValue

(***************************************************************************)
(* Request payloads.                                                       *)
(***************************************************************************)
\* self._auto_instruction: one fixed text, written here as one character.
AutoInstruction == <<"#">>

\* _process_chat_round's payload: the session's message dicts as they are.
RoundPayload(msgs) ==
    [model |-> "deepseek-reasoner", messages |-> msgs, stream |-> TRUE]

\* Faulty variant: the earlier instruction turns are not filtered out.
AutoPayload_NoFilter(msgs) ==
    [model |-> "deepseek-reasoner",
     messages |-> Append(msgs, Turn("user", AutoInstruction, TRUE)),
     stream |-> TRUE]

\* _generate_auto_response's payload: the history less the turns whose content
\* is the instruction text, then one instruction turn.
AutoPayload(msgs) ==
    [model |-> "deepseek-reasoner",
     messages |-> Append(SelectSeq(msgs, LAMBDA m : m.content # AutoInstruction),
                         Turn("user", AutoInstruction, TRUE)),
     stream |-> TRUE]

\* The payload of the request the next step of chat() sends, if it sends one.
SendsRequest == pc \in {"first_round", "assistant_round", "generate_auto"}

NextPayload ==
    IF pc = "generate_auto" THEN AutoPayload(messages) ELSE RoundPayload(messages)

(***************************************************************************)
(* Initial state: DeepSeekChat.__init__, no stream opened.                 *)
(***************************************************************************)
InitSession ==
    /\ messages = <<>>
    /\ auto_mode = TRUE
    /\ auto_iterations = 0
    /\ show_reasoning = FALSE
    /\ pc = "idle"
    /\ response_text = NoneValue
    /\ auto_response = NoneValue
    /\ retry_count = 0
    /\ calls = 0
    /\ auto_rounds = 0
    /\ requests_sent = 0

InitDecoder ==
    /\ buffer = <<>>
    /\ events = <<>>
    /\ stream_done = FALSE
    /\ consumed = <<>>
    /\ prev_buffer = <<>>

\* No conversation file has been written.
NoFile == <<"NoFile">>

InitFile ==
    /\ saved = NoFile
    /\ snapshot = <<>>

\* No request is consuming a stream.
InitRound ==
    /\ received = <<>>
    /\ full_response = <<>>
    /\ displayed = <<>>

\* The /chat requests the web front end is given.
MaxRequests == 2

Requests == 1..MaxRequests

InitWeb ==
    /\ web_pc = [r \in Requests |-> "idle"]
    /\ web_iter = [r \in Requests |-> 0]

InitOther == InitDecoder /\ InitFile /\ InitRound /\ InitWeb

Init == InitSession /\ InitOther

\* Faulty variant: chat() does not reset the iteration count.
Chat_NoReset(user_input) ==
    /\ pc = "idle"
    /\ calls < MaxCalls
    /\ calls' = calls + 1
    /\ response_text' = NoneValue
    /\ auto_response' = NoneValue
    /\ retry_count' = 0
    /\ auto_rounds' = 0
    /\ requests_sent' = 0
    /\ IF ValidateMessageSequence(messages, "user")
       THEN /\ messages' = Append(messages, Turn("user", user_input, FALSE))
            /\ auto_iterations' = auto_iterations
            /\ pc' = "first_round"
       ELSE /\ messages' = RollBack(messages)
            /\ auto_iterations' = auto_iterations
            /\ pc' = "idle"
    /\ UNCHANGED <<auto_mode, show_reasoning>>
    /\ UNCHANGED <<decoderVars, fileVars, roundVars, webVars>>

(***************************************************************************)
(* chat(): entry, validation, append of the human turn; the outer except   *)
(* handler when validation raises.                                         *)
(***************************************************************************)
Chat(user_input) ==
    /\ pc = "idle"
    /\ calls < MaxCalls
    /\ calls' = calls + 1
    /\ response_text' = NoneValue
    /\ auto_response' = NoneValue
    /\ retry_count' = 0
    /\ auto_rounds' = 0
    /\ requests_sent' = 0
    /\ IF ValidateMessageSequence(messages, "user")
       THEN /\ messages' = Append(messages, Turn("user", user_input, FALSE))
            /\ auto_iterations' = 0
            /\ pc' = "first_round"
       ELSE /\ messages' = RollBack(messages)
            /\ auto_iterations' = auto_iterations
            /\ pc' = "idle"
    /\ UNCHANGED <<auto_mode, show_reasoning>>
    /\ UNCHANGED <<decoderVars, fileVars, roundVars, webVars>>

\* chat(): the first completion round, and the return when it yields nothing.
FirstRound(outcome) ==
    /\ pc = "first_round"
    /\ response_text' = ProcessChatRoundResult(messages, outcome)
    /\ messages' = ProcessChatRoundMessages(messages, outcome)
    /\ pc' = IF Falsy(response_text') THEN "idle" ELSE "auto_decide"
    /\ retry_count' = 0
    /\ requests_sent' = requests_sent + RequestOpened(messages, "assistant")
    /\ UNCHANGED <<auto_mode, auto_iterations, show_reasoning, auto_response,
                   calls, auto_rounds>>
    /\ UNCHANGED <<decoderVars, fileVars, roundVars, webVars>>

\* chat(): the test of the while loop.
AutoDecide ==
    /\ pc = "auto_decide"
    /\ pc' = IF LoopCondition THEN "generate_auto" ELSE "idle"
    /\ UNCHANGED <<messages, auto_mode, auto_iterations, show_reasoning,
                   response_text, auto_response, retry_count, calls, auto_rounds, requests_sent>>
    /\ UNCHANGED <<decoderVars, fileVars, roundVars, webVars>>

\* Faulty variant: the automatic turn is appended without being counted.
GenerateAuto_NoCount(outcome) ==
    /\ pc = "generate_auto"
    /\ auto_response' = GenerateAutoResponse(messages, outcome)
    /\ requests_sent' = requests_sent + RequestOpened(messages, "user")
    /\ IF Falsy(auto_response')
       THEN /\ pc' = "idle"
            /\ UNCHANGED <<messages, auto_iterations>>
       ELSE /\ auto_iterations' = auto_iterations
            /\ messages' = Append(messages, Turn("user", auto_response', TRUE))
            /\ pc' = "assistant_round"
    /\ UNCHANGED <<auto_mode, show_reasoning, response_text, retry_count,
                   calls, auto_rounds>>
    /\ UNCHANGED <<decoderVars, fileVars, roundVars, webVars>>

\* Faulty variant: each automatic turn is counted twice.
GenerateAuto_CountsTwice(outcome) ==
    /\ pc = "generate_auto"
    /\ auto_response' = GenerateAutoResponse(messages, outcome)
    /\ requests_sent' = requests_sent + RequestOpened(messages, "user")
    /\ IF Falsy(auto_response')
       THEN /\ pc' = "idle"
            /\ UNCHANGED <<messages, auto_iterations>>
       ELSE /\ auto_iterations' = auto_iterations + 2
            /\ messages' = Append(messages, Turn("user", auto_response', TRUE))
            /\ pc' = "assistant_round"
    /\ UNCHANGED <<auto_mode, show_reasoning, response_text, retry_count,
                   calls, auto_rounds>>
    /\ UNCHANGED <<decoderVars, fileVars, roundVars, webVars>>

\* chat(): _generate_auto_response, then break or count and append the auto turn.
GenerateAuto(outcome) ==
    /\ pc = "generate_auto"
    /\ auto_response' = GenerateAutoResponse(messages, outcome)
    /\ requests_sent' = requests_sent + RequestOpened(messages, "user")
    /\ IF Falsy(auto_response')
       THEN /\ pc' = "idle"
            /\ UNCHANGED <<messages, auto_iterations>>
       ELSE /\ auto_iterations' = auto_iterations + 1
            /\ messages' = Append(messages, Turn("user", auto_response', TRUE))
            /\ pc' = "assistant_round"
    /\ UNCHANGED <<auto_mode, show_reasoning, response_text, retry_count,
                   calls, auto_rounds>>
    /\ UNCHANGED <<decoderVars, fileVars, roundVars, webVars>>

\* chat(): the completion round of a loop iteration, then break or go on.
AssistantRound(outcome) ==
    /\ pc = "assistant_round"
    /\ response_text' = ProcessChatRoundResult(messages, outcome)
    /\ messages' = ProcessChatRoundMessages(messages, outcome)
    /\ auto_rounds' = auto_rounds + 1
    /\ requests_sent' = requests_sent + RequestOpened(messages, "assistant")
    /\ IF Falsy(response_text')
       THEN /\ pc' = "idle"
            /\ retry_count' = retry_count
       ELSE /\ pc' = "auto_decide"
            /\ retry_count' = 0
    /\ UNCHANGED <<auto_mode, auto_iterations, show_reasoning, auto_response, calls>>
    /\ UNCHANGED <<decoderVars, fileVars, roundVars, webVars>>

\* toggle_auto_mode
ToggleAutoMode ==
    /\ pc = "idle"
    /\ auto_mode' = ~auto_mode
    /\ auto_iterations' = 0
    /\ messages' = IF auto_mode' THEN CleanAutoMessages(messages) ELSE messages
    /\ UNCHANGED <<show_reasoning, pc, response_text, auto_response, retry_count,
                   calls, auto_rounds, requests_sent>>
    /\ UNCHANGED <<decoderVars, fileVars, roundVars, webVars>>

\* toggle_reasoning
ToggleReasoning ==
    /\ pc = "idle"
    /\ show_reasoning' = ~show_reasoning
    /\ UNCHANGED <<messages, auto_mode, auto_iterations, pc, response_text,
                   auto_response, retry_count, calls, auto_rounds, requests_sent>>
    /\ UNCHANGED <<decoderVars, fileVars, roundVars, webVars>>

\* The steps of one chat() call.
ChatStep ==
    \/ \E user_input \in UserInputs : Chat(user_input)
    \/ \E outcome \in Outcomes : FirstRound(outcome)
    \/ AutoDecide
    \/ \E outcome \in Outcomes : GenerateAuto(outcome)
    \/ \E outcome \in Outcomes : AssistantRound(outcome)

\* The command loop of the CLI: chat, or a toggle between two chats.
Next ==
    \/ ChatStep
    \/ ToggleAutoMode
    \/ ToggleReasoning

Spec == Init /\ [][Next]_vars

\* A session driven by chat() calls alone.
SpecChat == Init /\ [][ChatStep]_vars

(***************************************************************************)
(* The streaming protocol decoder: _stream_request's loop over             *)
(* response.iter_lines().                                                  *)
(*                                                                         *)
(* A payload is a sequence of chunks of text, each standing for the text   *)
(* written beside it.  A line is blank, or a data: line with a payload, or *)
(* another non-empty line (a comment, an event: field, a frame that lacks  *)
(* the data: prefix).                                                      *)
(***************************************************************************)
MaxPayloadLen == 2

MaxLines == 2

ContentHead == "{C"    \* {"choices":[{"delta":{"content":"Hi"}}]   (a frame less its last brace)

CloseBrace == "}"      \* }

Malformed == "{x}"     \* {x}

Space == " "           \* one blank

DoneMark == "[DONE]"   \* [DONE]

Chars == {ContentHead, CloseBrace, Malformed, Space}

DonePayloads == {<<DoneMark>>, <<Space, DoneMark, Space>>, <<DoneMark, DoneMark>>}

RawPayloads == UNION {[1..n -> Chars] : n \in 0..MaxPayloadLen} \cup DonePayloads

OtherPayloads == {<<>>, <<ContentHead, CloseBrace>>, <<DoneMark>>}

Lines ==
    {[kind |-> "blank", payload |-> <<>>]}
    \cup {[kind |-> "data", payload |-> p] : p \in RawPayloads}
    \cup {[kind |-> "other", payload |-> p] : p \in OtherPayloads}

\* The event of the one frame the chunks can spell.
ContentEvent == <<"content", "Hi">>

\* `if not line` and `raw_line.startswith("data:")`: the line is significant.
IsDataLine(l) == l.kind = "data"

\* data_content = raw_line[5:].strip()
DataContent(l) == Strip(l.payload)

\* Faulty variant: the sentinel is looked for anywhere in the payload.
IsDone_Substring(data_content) ==
    \E i \in 1..Len(data_content) : data_content[i] = DoneMark

\* data_content == "[DONE]"
IsDone(data_content) == data_content = <<DoneMark>>

\* buffer.startswith("{"): of the chunks, two begin with an opening brace.
StartsWithBrace(buf) == buf # <<>> /\ buf[1] \in {ContentHead, Malformed}

\* buffer.endswith("}"): of the chunks, two end with a closing brace.
EndsWithBrace(buf) == buf # <<>> /\ buf[Len(buf)] \in {CloseBrace, Malformed}

\* Faulty variant: only the opening brace is looked at.
LooksComplete_OpenOnly(buf) == StartsWithBrace(buf)

\* buffer.startswith("{") and buffer.endswith("}")
LooksComplete(buf) == StartsWithBrace(buf) /\ EndsWithBrace(buf)

\* The text without its blanks (JSON allows blanks between its tokens).
NonSpace(buf) == SelectSeq(buf, LAMBDA c : c # Space)

\* json.loads(buffer) returns (else it raises JSONDecodeError): of the texts the
\* chunks can spell, the one JSON document is the frame, blanks allowed before
\* its last brace.
JsonLoadsOk(buf) == NonSpace(buf) = <<ContentHead, CloseBrace>>

\* The events of a parsed chunk: choices[0].delta.content of the frame.
ChunkEvents(buf) == <<ContentEvent>>

\* Faulty variant: a parse failure keeps the buffer.
BufferAfter_KeepOnError(buf, l) ==
    IF ~IsDataLine(l) \/ IsDone(DataContent(l)) \/ DataContent(l) = <<>>
    THEN buf
    ELSE IF ~LooksComplete(buf \o DataContent(l))
         THEN buf \o DataContent(l)
         ELSE IF JsonLoadsOk(buf \o DataContent(l))
              THEN <<>>
              ELSE buf \o DataContent(l)

\* The buffer after the loop body has run on line l: kept on a line that is
\* skipped, grown while it does not look complete, emptied after json.loads
\* (on return, and in the JSONDecodeError handler).
BufferAfter(buf, l) ==
    IF ~IsDataLine(l) \/ IsDone(DataContent(l)) \/ DataContent(l) = <<>>
    THEN buf
    ELSE IF ~LooksComplete(buf \o DataContent(l))
         THEN buf \o DataContent(l)
         ELSE IF JsonLoadsOk(buf \o DataContent(l))
              THEN <<>>
              ELSE <<>>

\* The events the loop body yields on line l.
YieldedOn(buf, l) ==
    IF ~IsDataLine(l) \/ IsDone(DataContent(l)) \/ DataContent(l) = <<>>
    THEN <<>>
    ELSE IF LooksComplete(buf \o DataContent(l)) /\ JsonLoadsOk(buf \o DataContent(l))
         THEN ChunkEvents(buf \o DataContent(l))
         ELSE <<>>

\* The loop ends on line l: break.
BreaksOn(l) == IsDataLine(l) /\ IsDone(DataContent(l))

\* One pass of `for line in response.iter_lines()`.
ReadLine(l) ==
    /\ ~stream_done
    /\ Len(consumed) < MaxLines
    /\ consumed' = Append(consumed, l)
    /\ prev_buffer' = buffer
    /\ buffer' = BufferAfter(buffer, l)
    /\ events' = events \o YieldedOn(buffer, l)
    /\ stream_done' = BreaksOn(l)
    /\ UNCHANGED <<sessionVars, fileVars, roundVars, webVars>>

DecoderNext == \E l \in Lines : ReadLine(l)

SpecDecoder == Init /\ [][DecoderNext]_vars

(***************************************************************************)
(* Properties of the session.                                              *)
(***************************************************************************)
Alternates(msgs) ==
    \A i \in 1..(Len(msgs) - 1) : msgs[i].role # msgs[i + 1].role

LastRole(msgs) == IF msgs = <<>> THEN "none" ELSE msgs[Len(msgs)].role

HasAutoTurn(msgs) == \E i \in 1..Len(msgs) : msgs[i].is_auto_generated

\* C1: under chat() calls alone, whatever each round ends in (a reply, an
\* empty reply, a transport failure), the history never holds two consecutive
\* turns of the same role.
C1_ChatKeepsAlternation == Alternates(messages)

\* A second call running its auto loop on top of the history of the first.
C1_Witness ==
    /\ calls = 2
    /\ pc = "assistant_round"
    /\ Len(messages) >= 5
    /\ HasAutoTurn(messages)

\* C2: the role alternation holds in every reachable state of the session,
\* the states reached by toggle_auto_mode's clean-up included.
C2_AlternationInEveryState ==
    \A i \in 1..(Len(messages) - 1) :
        ~(messages[i].role = messages[i + 1].role)

\* C3: one chat() call runs at most max_auto_iterations automatic assistant
\* rounds; a call leaves the loop early only on a round that returned nothing,
\* and a call that ends at the loop test with auto_mode on (every round having
\* returned text) has run exactly max_auto_iterations of them.
C3_AutoRoundsBounded ==
    [][ /\ auto_rounds' <= max_auto_iterations
        /\ (pc \in {"first_round", "assistant_round"} /\ pc' = "idle")
               => Falsy(response_text')
        /\ (pc = "generate_auto" /\ pc' = "idle") => Falsy(auto_response')
        /\ (pc = "auto_decide" /\ pc' = "idle" /\ auto_mode)
               => auto_rounds = max_auto_iterations ]_vars

C3_Witness ==
    /\ pc = "idle"
    /\ auto_mode
    /\ auto_rounds = max_auto_iterations
    /\ ~Falsy(response_text)
    /\ Len(messages) = 2 + 2 * max_auto_iterations

\* C4: a failure in GenerateAuto or AssistantRound with retries left does not
\* end the auto loop: the retry counter is incremented and the loop is
\* re-entered at its test.
C4_FailureIsRetried ==
    [][ ( /\ \/ pc = "generate_auto" /\ auto_response' = NoneValue
             \/ pc = "assistant_round" /\ response_text' = NoneValue
          /\ pc' # pc
          /\ retry_count < max_auto_retries )
        => (pc' = "auto_decide" /\ retry_count' = retry_count + 1) ]_vars

\* C5: when chat() has returned, the history is empty or ends with an
\* assistant turn (no dangling user turn).
C5_NoDanglingUserTurn ==
    (pc = "idle" /\ calls > 0) => LastRole(messages) \in {"none", "assistant"}

\* C6: a chat() call rejected by role validation leaves the history as it was.
C6_RejectedCallKeepsHistory ==
    [][ (pc = "idle" /\ calls' = calls + 1
            /\ ~ValidateMessageSequence(messages, "user"))
        => messages' = messages ]_vars

\* C7: a toggle_auto_mode call that enables auto-mode leaves no auto-generated
\* turn in the history and auto_iterations at 0; one that disables it leaves
\* the history unchanged.
C7_ToggleAutoMode ==
    [][ /\ (~auto_mode /\ auto_mode')
            => (~HasAutoTurn(messages') /\ auto_iterations' = 0)
        /\ (auto_mode /\ ~auto_mode') => messages' = messages ]_vars

\* Auto-mode has been re-enabled on a history that held auto-generated turns:
\* two assistant turns are now adjacent, which only the clean-up produces.
C7_Witness ==
    /\ pc = "idle"
    /\ auto_mode
    /\ auto_iterations = 0
    /\ ~HasAutoTurn(messages)
    /\ ~Alternates(messages)

(***************************************************************************)
(* Properties of the decoder.                                              *)
(***************************************************************************)
LastLine == consumed[Len(consumed)]

\* The line the step takes from the transport.
NewLine == consumed'[Len(consumed')]

ReadsLine == Len(consumed') = Len(consumed) + 1

\* A payload that is a malformed frame: not blank, not the sentinel, not JSON.
Unparsable(data_content) ==
    /\ data_content # <<>>
    /\ data_content # <<DoneMark>>
    /\ NonSpace(data_content) # <<ContentHead, CloseBrace>>

\* A payload that is the complete frame.
CompleteFrame(data_content) ==
    NonSpace(data_content) = <<ContentHead, CloseBrace>>

SentinelLine(l) == l.kind = "data" /\ Strip(l.payload) = <<DoneMark>>

C9_SplitFrameRecombined ==
    [][ ( /\ Len(consumed) >= 1
          /\ LastLine.kind = "data"
          /\ prev_buffer = <<>>
          /\ Strip(LastLine.payload) # <<>>
          /\ ~EndsWithBrace(Strip(LastLine.payload))
          /\ ReadsLine
          /\ NewLine.kind = "data"
          /\ Strip(NewLine.payload) # <<>>
          /\ CompleteFrame(Strip(LastLine.payload) \o Strip(NewLine.payload)) )
        => ( /\ buffer = Strip(LastLine.payload)
             /\ events' = Append(events, ContentEvent)
             /\ buffer' = <<>>
             /\ ~stream_done' ) ]_vars

C9_Witness ==
    /\ Len(consumed) = 2
    /\ consumed[1].kind = "data"
    /\ Strip(consumed[1].payload) = <<ContentHead>>
    /\ consumed[2].kind = "data"
    /\ Strip(consumed[2].payload) = <<CloseBrace>>
    /\ prev_buffer = <<ContentHead>>
    /\ events = <<ContentEvent>>
    /\ buffer = <<>>

\* C10: the loop ends at, and only at, the first data: line whose payload is
\* exactly [DONE]; that line yields no event and no line is taken after it;
\* a blank line or a line without the data: prefix changes neither the events
\* nor the buffer and does not end the loop.
C10_EndsAtFirstSentinel ==
    [][ /\ ReadsLine => (stream_done' <=> SentinelLine(NewLine))
        /\ (ReadsLine /\ SentinelLine(NewLine)) => events' = events
        /\ stream_done => (events' = events /\ consumed' = consumed)
        /\ \A i \in 1..(Len(consumed') - 1) : ~SentinelLine(consumed'[i])
        /\ (ReadsLine /\ NewLine.kind # "data")
              => (events' = events /\ buffer' = buffer /\ ~stream_done') ]_vars

\* The frame, then the sentinel: one event, and the loop has ended.
C10_Witness ==
    /\ stream_done
    /\ Len(consumed) = 2
    /\ CompleteFrame(Strip(consumed[1].payload))
    /\ consumed[1].kind = "data"
    /\ SentinelLine(consumed[2])
    /\ events = <<ContentEvent>>

(***************************************************************************)
(* Session states taken as the start of the function-level specifications. *)
(* A history begins with a human user turn (turns are only appended after  *)
(* it, and only user turns are removed), never has two adjacent user turns *)
(* and marks only user turns as auto-generated.  auto_iterations is 0      *)
(* while auto_mode is off (toggle_auto_mode and chat() reset it, and only  *)
(* the auto loop increments it) and otherwise counts the auto-generated    *)
(* turns appended since the last human turn.                               *)
(***************************************************************************)
MaxHistory == 3

DrawnTurns ==
    {Turn("user", <<"a">>, FALSE), Turn("user", <<"a">>, TRUE),
     Turn("assistant", <<"a">>, FALSE), Turn("assistant", <<" ">>, FALSE)}

HistoryShape(h) ==
    /\ h # <<>> => h[1] = Turn("user", <<"a">>, FALSE)
    /\ \A i \in 1..(Len(h) - 1) : ~(h[i].role = "user" /\ h[i + 1].role = "user")

Histories ==
    {h \in UNION {[1..n -> DrawnTurns] : n \in 0..MaxHistory} : HistoryShape(h)}

RECURSIVE AutoSinceHuman(_)
AutoSinceHuman(h) ==
    IF h = <<>> \/ (h[Len(h)].role = "user" /\ ~h[Len(h)].is_auto_generated)
    THEN 0
    ELSE AutoSinceHuman(SubSeq(h, 1, Len(h) - 1))
         + (IF h[Len(h)].is_auto_generated THEN 1 ELSE 0)

InitDrawn ==
    /\ messages \in Histories
    /\ auto_mode \in BOOLEAN
    /\ auto_iterations = (IF auto_mode THEN AutoSinceHuman(messages) ELSE 0)
    /\ show_reasoning \in BOOLEAN
    /\ pc = "idle"
    /\ response_text = NoneValue
    /\ auto_response = NoneValue
    /\ retry_count = 0
    /\ calls = 0
    /\ auto_rounds = 0
    /\ requests_sent = 0
    /\ InitOther

(***************************************************************************)
(* save_conversation / load_conversation.  pickle writes the state dict as *)
(* a flat stream: the number of turns, each turn as its role, the length   *)
(* of its content, the characters of its content and its flag, then the    *)
(* three scalar fields.  Loading reads the stream back from its start.     *)
(***************************************************************************)
\* Faulty variant: the iteration count is not put into the state dict.
StateDict_NoIterations ==
    [messages |-> messages, auto_mode |-> auto_mode,
     auto_iterations |-> 0, show_reasoning |-> show_reasoning]

\* save_conversation's state dictionary.
StateDict ==
    [messages |-> messages, auto_mode |-> auto_mode,
     auto_iterations |-> auto_iterations, show_reasoning |-> show_reasoning]

\* Numbers and booleans are written as text and read back from text.
Digits == <<"0", "1", "2", "3", "4", "5", "6", "7", "8", "9">>

NumTok(n) == Digits[n + 1]

TokNum(t) == CHOOSE n \in 0..9 : Digits[n + 1] = t

BoolTok(b) == IF b THEN "True" ELSE "False"

TokBool(t) == t = "True"

DumpText(t) == <<NumTok(Len(t))>> \o t

DumpTurn(m) == <<m.role>> \o DumpText(m.content) \o <<BoolTok(m.is_auto_generated)>>

RECURSIVE DumpTurns(_)
DumpTurns(msgs) ==
    IF msgs = <<>> THEN <<>> ELSE DumpTurn(Head(msgs)) \o DumpTurns(Tail(msgs))

PickleDump(state) ==
    <<NumTok(Len(state.messages))>> \o DumpTurns(state.messages)
        \o <<BoolTok(state.auto_mode), NumTok(state.auto_iterations),
             BoolTok(state.show_reasoning)>>

\* Readers: each returns the value read and the position after it.
ReadText(toks, pos) ==
    [value |-> SubSeq(toks, pos + 1, pos + TokNum(toks[pos])),
     next |-> pos + 1 + TokNum(toks[pos])]

ReadTurn(toks, pos) ==
    LET text == ReadText(toks, pos + 1)
    IN  [value |-> Turn(toks[pos], text.value, TokBool(toks[text.next])),
         next |-> text.next + 1]

RECURSIVE ReadTurns(_, _, _)
ReadTurns(toks, pos, n) ==
    IF n = 0
    THEN [value |-> <<>>, next |-> pos]
    ELSE LET first == ReadTurn(toks, pos)
             rest == ReadTurns(toks, first.next, n - 1)
         IN  [value |-> <<first.value>> \o rest.value, next |-> rest.next]

PickleLoad(toks) ==
    LET turns == ReadTurns(toks, 2, TokNum(toks[1]))
    IN  [messages |-> turns.value,
         auto_mode |-> TokBool(toks[turns.next]),
         auto_iterations |-> TokNum(toks[turns.next + 1]),
         show_reasoning |-> TokBool(toks[turns.next + 2])]

\* save_conversation: writes the file; the session is left as it is.
SaveConversation ==
    /\ pc = "idle"
    /\ saved' = PickleDump(StateDict)
    /\ snapshot' = <<[messages |-> messages, auto_mode |-> auto_mode,
                      auto_iterations |-> auto_iterations,
                      show_reasoning |-> show_reasoning]>>
    /\ UNCHANGED <<sessionVars, decoderVars, roundVars, webVars>>

\* load_conversation: a missing file changes nothing; otherwise the four
\* fields are assigned from the unpickled state.
LoadConversation ==
    /\ pc = "idle"
    /\ IF saved = NoFile
       THEN UNCHANGED <<messages, auto_mode, auto_iterations, show_reasoning>>
       ELSE LET state == PickleLoad(saved)
            IN  /\ messages' = state.messages
                /\ auto_mode' = state.auto_mode
                /\ auto_iterations' = state.auto_iterations
                /\ show_reasoning' = state.show_reasoning
    /\ snapshot' = <<>>
    /\ UNCHANGED <<pc, response_text, auto_response, retry_count, calls, auto_rounds, requests_sent,
                   saved>>
    /\ UNCHANGED <<decoderVars, roundVars, webVars>>

PersistNext ==
    \/ SaveConversation
    \/ LoadConversation
    \/ ToggleAutoMode
    \/ ToggleReasoning

SpecPersist == InitDrawn /\ [][PersistNext]_vars

\* C12: a load that follows a save of the file (whatever toggles came between)
\* leaves the turn list, auto_mode, auto_iterations and show_reasoning exactly
\* as they were when the file was saved; and the save itself changes none.
C12_SaveLoadRoundTrip ==
    [][/\ (snapshot # <<>> /\ snapshot' = <<>>) =>
              /\ messages' = snapshot[1].messages
              /\ auto_mode' = snapshot[1].auto_mode
              /\ auto_iterations' = snapshot[1].auto_iterations
              /\ show_reasoning' = snapshot[1].show_reasoning
       /\ (snapshot' # <<>> /\ snapshot' # snapshot) =>
              UNCHANGED <<messages, auto_mode, auto_iterations, show_reasoning>>]_vars

\* A file saved with a non-zero iteration count, an auto-generated turn and
\* show_reasoning on has been loaded back, and the session now equals it.
C12_Witness ==
    /\ saved # NoFile
    /\ snapshot = <<>>
    /\ PickleLoad(saved).auto_iterations > 0
    /\ HasAutoTurn(PickleLoad(saved).messages)
    /\ PickleLoad(saved).show_reasoning
    /\ StateDict = PickleLoad(saved)

(***************************************************************************)
(* Properties of the request payloads.                                     *)
(***************************************************************************)
\* C11: every message of every request payload, of a completion round and of
\* the auto-response generation, has the fields role and content and no other.
C11_OnlyRoleAndContentSent ==
    SendsRequest =>
        \A i \in 1..Len(NextPayload.messages) :
            DOMAIN NextPayload.messages[i] = {"role", "content"}

(***************************************************************************)
(* _process_chat_round, one stream event at a time.  The round is entered  *)
(* by chat() after its human turn; what chat() does with the returned text *)
(* is the subject of Spec and is not repeated here.                        *)
(*                                                                         *)
(* console.print renders console markup in the text it is given and raises *)
(* MarkupError on a closing tag that closes nothing, such as "[/]".        *)
(***************************************************************************)
MaxEvents == 2

ClosingTag == <<"[", "/", "]">>

\* The events _stream_request can yield: a kind and a non-empty fragment.
StreamEvents ==
    {<<"reasoning", <<"r">>>>, <<"reasoning", ClosingTag>>,
     <<"content", <<"a">>>>, <<"content", <<" ">>>>}

\* How a stream stops: the loop ends, or RuntimeError("API Error") is raised.
StreamEnd == <<"end", <<>>>>

StreamError == <<"error", <<>>>>

RECURSIVE Join(_)
Join(fragments) ==
    IF fragments = <<>> THEN <<>> ELSE Head(fragments) \o Join(Tail(fragments))

\* rich's markup renderer: a closing tag with no open tag before it.
RaisesMarkupError(text) ==
    \E i \in 1..(Len(text) - 2) : SubSeq(text, i, i + 2) = ClosingTag

\* The event's print raises inside the round's try block.
PrintRaises(ev, show) == ev[1] = "reasoning" /\ show /\ RaisesMarkupError(ev[2])

\* Faulty variant: reasoning fragments are collected into the reply as well.
FullResponseAfter_WithReasoning(full, ev) == Append(full, ev[2])

\* full_response after the loop body has handled one event.
FullResponseAfter(full, ev) ==
    IF ev[1] = "reasoning" THEN full
    ELSE IF ev[1] = "content" THEN Append(full, ev[2])
    ELSE full

\* Entry of _process_chat_round: validation, then the request is opened.
RoundOpen ==
    /\ pc = "first_round"
    /\ IF ValidateMessageSequence(messages, "assistant")
       THEN /\ pc' = "round_streaming"
            /\ UNCHANGED response_text
       ELSE /\ pc' = "round_returned"
            /\ response_text' = NoneValue
    /\ requests_sent' = requests_sent + RequestOpened(messages, "assistant")
    /\ received' = <<>>
    /\ full_response' = <<>>
    /\ displayed' = <<>>
    /\ UNCHANGED <<messages, auto_mode, auto_iterations, show_reasoning,
                   auto_response, retry_count, calls, auto_rounds>>
    /\ UNCHANGED <<decoderVars, fileVars, webVars>>

\* One pass of the for loop over the stream's events.
RoundEvent(ev) ==
    /\ pc = "round_streaming"
    /\ Len(received) < MaxEvents
    /\ received' = Append(received, ev)
    /\ IF PrintRaises(ev, show_reasoning)
       THEN /\ pc' = "round_returned"
            /\ response_text' = NoneValue
            /\ UNCHANGED <<full_response, displayed>>
       ELSE /\ pc' = "round_streaming"
            /\ full_response' = FullResponseAfter(full_response, ev)
            /\ displayed' = (IF ev[1] = "reasoning" /\ show_reasoning
                             THEN Append(displayed, ev[2]) ELSE displayed)
            /\ UNCHANGED response_text
    /\ UNCHANGED <<messages, auto_mode, auto_iterations, show_reasoning,
                   auto_response, retry_count, calls, auto_rounds, requests_sent>>
    /\ UNCHANGED <<decoderVars, fileVars, webVars>>

\* The stream ends: the reply is joined and, if non-empty, appended.
RoundEnd ==
    /\ pc = "round_streaming"
    /\ received' = Append(received, StreamEnd)
    /\ response_text' = Join(full_response)
    /\ messages' = (IF Join(full_response) # <<>>
                    THEN Append(messages, Turn("assistant", Join(full_response), FALSE))
                    ELSE messages)
    /\ pc' = "round_returned"
    /\ UNCHANGED <<auto_mode, auto_iterations, show_reasoning, auto_response,
                   retry_count, calls, auto_rounds, requests_sent, full_response, displayed>>
    /\ UNCHANGED <<decoderVars, fileVars, webVars>>

\* The transport fails: the except branch returns None.
RoundAbort ==
    /\ pc = "round_streaming"
    /\ received' = Append(received, StreamError)
    /\ response_text' = NoneValue
    /\ pc' = "round_returned"
    /\ UNCHANGED <<messages, auto_mode, auto_iterations, show_reasoning,
                   auto_response, retry_count, calls, auto_rounds, requests_sent,
                   full_response, displayed>>
    /\ UNCHANGED <<decoderVars, fileVars, webVars>>

RoundNext ==
    \/ \E user_input \in UserInputs : Chat(user_input)
    \/ ToggleReasoning
    \/ RoundOpen
    \/ \E ev \in StreamEvents : RoundEvent(ev)
    \/ RoundEnd
    \/ RoundAbort

SpecRound == InitDrawn /\ [][RoundNext]_vars

\* The content fragments among the events received, in order.
ContentFragments(evs) ==
    LET contents == SelectSeq(evs, LAMBDA ev : ev[1] = "content")
    IN  [i \in 1..Len(contents) |-> contents[i][2]]

TakesEvent ==
    /\ pc = "round_streaming"
    /\ Len(received') = Len(received) + 1
    /\ received'[Len(received')] \in StreamEvents

\* C14: toggle_reasoning flips show_reasoning and changes nothing else; and a
\* round handles each stream event the same way whether show_reasoning is on
\* or off: it goes on streaming and its reply grows by the event's content.
C14_ReasoningDisplayOnly ==
    [][/\ show_reasoning' # show_reasoning =>
              UNCHANGED <<messages, auto_mode, auto_iterations, pc>>
       /\ TakesEvent =>
              /\ pc' = "round_streaming"
              /\ Join(full_response') = Join(ContentFragments(received'))
              /\ messages' = messages]_vars

\* C16: a round appends an assistant turn only at the normal end of its
\* stream, and then only when the content fragments received, joined in order
\* with the reasoning fragments left out, are non-empty, that text being the
\* turn's content; a transport failure after any fragments appends nothing.
C16_TurnOnlyAfterNormalEnd ==
    [][(pc = "first_round" \/ pc = "round_streaming") =>
          IF /\ received' # <<>>
             /\ Len(received') = Len(received) + 1
             /\ received'[Len(received')] = StreamEnd
             /\ Join(ContentFragments(received)) # <<>>
          THEN /\ messages' = Append(messages,
                      Turn("assistant", Join(ContentFragments(received)), FALSE))
          ELSE /\ messages' = messages]_vars

\* A stream gave a reasoning and a content fragment and then failed: the
\* round returned None and the history still ends with the user turn.
C16_Witness ==
    /\ pc = "round_returned"
    /\ Len(received) = 3
    /\ received[3] = StreamError
    /\ \E i \in 1..2 : received[i][1] = "content"
    /\ \E i \in 1..2 : received[i][1] = "reasoning"
    /\ response_text = NoneValue
    /\ LastRole(messages) = "user"

(***************************************************************************)
(* _stream_request on whole frames: every line is "data: <frame>" with a   *)
(* frame that json.loads accepts, so the buffer is empty between lines.    *)
(* A frame is written as its JSON text; JsonLoads is json.loads on the     *)
(* frames listed.  A Python dict is a record, None is PyNone.              *)
(***************************************************************************)
MaxFrames == 3

PyNone == "None"

NoChoicesFrame == "{\"id\":\"x\"}"

EmptyChoicesFrame == "{\"choices\":[]}"

NoDeltaFrame == "{\"choices\":[{\"index\":\"0\"}]}"

EmptyDeltaFrame == "{\"choices\":[{\"delta\":{}}]}"

RoleDeltaFrame == "{\"choices\":[{\"delta\":{\"role\":\"assistant\"}}]}"

ReasoningFrame == "{\"choices\":[{\"delta\":{\"reasoning_content\":\"Hm\"}}]}"

ContentFrame == "{\"choices\":[{\"delta\":{\"content\":\"Hi\"}}]}"

BothFrame == "{\"choices\":[{\"delta\":{\"reasoning_content\":\"Hm\",\"content\":\"Hi\"}}]}"

EmptyReasoningFrame == "{\"choices\":[{\"delta\":{\"reasoning_content\":\"\",\"content\":\"Hi\"}}]}"

NullReasoningFrame == "{\"choices\":[{\"delta\":{\"reasoning_content\":null,\"content\":\"Hi\"}}]}"

NullContentFrame == "{\"choices\":[{\"delta\":{\"reasoning_content\":\"Hm\",\"content\":null}}]}"

EmptyContentFrame == "{\"choices\":[{\"delta\":{\"content\":\"\"}}]}"

Frames ==
    {NoChoicesFrame, EmptyChoicesFrame, NoDeltaFrame, EmptyDeltaFrame, RoleDeltaFrame,
     ReasoningFrame, ContentFrame, BothFrame, EmptyReasoningFrame, NullReasoningFrame,
     NullContentFrame, EmptyContentFrame}

EmptyDict == [key \in {} |-> PyNone]

DeltaChunk(delta) == [choices |-> <<[delta |-> delta]>>]

JsonLoads(frame) ==
    CASE frame = NoChoicesFrame -> [id |-> "x"]
      [] frame = EmptyChoicesFrame -> [choices |-> <<>>]
      [] frame = NoDeltaFrame -> [choices |-> <<[index |-> "0"]>>]
      [] frame = EmptyDeltaFrame -> DeltaChunk(EmptyDict)
      [] frame = RoleDeltaFrame -> DeltaChunk([role |-> "assistant"])
      [] frame = ReasoningFrame -> DeltaChunk([reasoning_content |-> "Hm"])
      [] frame = ContentFrame -> DeltaChunk([content |-> "Hi"])
      [] frame = BothFrame -> DeltaChunk([reasoning_content |-> "Hm", content |-> "Hi"])
      [] frame = EmptyReasoningFrame -> DeltaChunk([reasoning_content |-> "", content |-> "Hi"])
      [] frame = NullReasoningFrame ->
             DeltaChunk([reasoning_content |-> PyNone, content |-> "Hi"])
      [] frame = NullContentFrame ->
             DeltaChunk([reasoning_content |-> "Hm", content |-> PyNone])
      [] frame = EmptyContentFrame -> DeltaChunk([content |-> ""])

\* dict.get(key): the value, or None when the key is absent.
DictGet(dict, key) == IF key \in DOMAIN dict THEN dict[key] ELSE PyNone

\* Python truth of a str-or-None value.
Truthy(value) == value # PyNone /\ value # ""

\* Faulty variant: the content field is looked at before reasoning_content.
FrameEvents_ContentFirst(chunk) ==
    IF "choices" \notin DOMAIN chunk \/ Len(chunk.choices) = 0
    THEN <<>>
    ELSE LET choice == chunk.choices[1]
             delta == IF "delta" \in DOMAIN choice THEN choice.delta ELSE EmptyDict
         IN  IF DOMAIN delta = {} THEN <<>>
             ELSE IF Truthy(DictGet(delta, "content"))
                  THEN <<<<"content", delta.content>>>>
             ELSE IF Truthy(DictGet(delta, "reasoning_content"))
                  THEN <<<<"reasoning", delta.reasoning_content>>>>
             ELSE <<>>

\* What the loop body yields for one parsed chunk (lines 181-192).
FrameEvents(chunk) ==
    IF "choices" \notin DOMAIN chunk \/ Len(chunk.choices) = 0
    THEN <<>>
    ELSE LET choice == chunk.choices[1]
             delta == IF "delta" \in DOMAIN choice THEN choice.delta ELSE EmptyDict
         IN  IF DOMAIN delta = {} THEN <<>>
             ELSE IF Truthy(DictGet(delta, "reasoning_content"))
                  THEN <<<<"reasoning", delta.reasoning_content>>>>
             ELSE IF Truthy(DictGet(delta, "content"))
                  THEN <<<<"content", delta.content>>>>
             ELSE <<>>

\* One pass of the loop on a line "data: <frame>".
FrameLine(frame) ==
    /\ ~stream_done
    /\ Len(consumed) < MaxFrames
    /\ consumed' = Append(consumed, [kind |-> "data", payload |-> <<frame>>])
    /\ prev_buffer' = buffer
    /\ buffer' = <<>>
    /\ events' = events \o FrameEvents(JsonLoads(frame))
    /\ UNCHANGED stream_done
    /\ UNCHANGED <<sessionVars, fileVars, roundVars, webVars>>

FramesNext == \E frame \in Frames : FrameLine(frame)

SpecFrames == Init /\ [][FramesNext]_vars

\* The frame of the line just read, parsed.
NewChunk == JsonLoads(NewLine.payload[1])

NewDelta == NewChunk.choices[1].delta

HasDelta ==
    /\ "choices" \in DOMAIN NewChunk
    /\ Len(NewChunk.choices) > 0
    /\ "delta" \in DOMAIN NewChunk.choices[1]
    /\ DOMAIN NewDelta # {}

NonEmptyField(field) ==
    /\ field \in DOMAIN NewDelta
    /\ NewDelta[field] # PyNone
    /\ NewDelta[field] # ""

\* C15: a parsed frame adds at most one event, at the end of the events so
\* far: none if it has no choices or no delta or an empty one, a reasoning
\* event if reasoning_content is non-empty (content or not), else a content
\* event if content is non-empty, else none.
C15_OneEventPerFrame ==
    [][ReadsLine =>
          /\ Len(events') <= Len(events) + 1
          /\ SubSeq(events', 1, Len(events)) = events
          /\ ~HasDelta => events' = events
          /\ (HasDelta /\ NonEmptyField("reasoning_content")) =>
                 events' = Append(events, <<"reasoning", NewDelta.reasoning_content>>)
          /\ (HasDelta /\ ~NonEmptyField("reasoning_content") /\ NonEmptyField("content")) =>
                 events' = Append(events, <<"content", NewDelta.content>>)
          /\ (HasDelta /\ ~NonEmptyField("reasoning_content")
                       /\ ~NonEmptyField("content")) => events' = events]_vars

\* A frame with both fields gave a reasoning event, a frame with an empty
\* delta gave none and a frame with null reasoning gave a content event.
C15_Witness ==
    /\ Len(consumed) = 3
    /\ consumed[1].payload = <<BothFrame>>
    /\ consumed[2].payload = <<EmptyDeltaFrame>>
    /\ consumed[3].payload = <<NullReasoningFrame>>
    /\ events = <<<<"reasoning", "Hm">>, <<"content", "Hi">>>>

(***************************************************************************)
(* chat() calls whose human input may be the instruction text itself, so   *)
(* that the history can hold a turn the auto-response request filters out. *)
(***************************************************************************)
EchoInputs == UserInputs \cup {AutoInstruction}

EchoStep ==
    \/ \E user_input \in EchoInputs : Chat(user_input)
    \/ \E outcome \in Outcomes : FirstRound(outcome)
    \/ AutoDecide
    \/ \E outcome \in Outcomes : GenerateAuto(outcome)
    \/ \E outcome \in Outcomes : AssistantRound(outcome)

SpecEcho == Init /\ [][EchoStep]_vars

InstructionCount(msgs) ==
    Cardinality({i \in 1..Len(msgs) : msgs[i].content = AutoInstruction})

\* C17: the auto-response request holds the instruction text exactly once, as
\* its last message; the step that issues it leaves the session's turn list
\* as it was, or appends one user turn marked auto-generated whose content is
\* the generated reply, which is not empty.
C17_GenerateAutoFrame ==
    [][pc = "generate_auto" =>
          /\ NextPayload.messages[Len(NextPayload.messages)].role = "user"
          /\ NextPayload.messages[Len(NextPayload.messages)].content = AutoInstruction
          /\ InstructionCount(NextPayload.messages) = 1
          /\ IF pc' = "assistant_round"
             THEN /\ auto_response' # NoneValue
                  /\ auto_response' # <<>>
                  /\ messages' = Append(messages, Turn("user", auto_response', TRUE))
             ELSE /\ messages' = messages]_vars

\* The human typed the instruction text, the reply came, and the auto turn
\* generated from that history has been appended.
C17_Witness ==
    /\ pc = "assistant_round"
    /\ Len(messages) = 3
    /\ messages[1] = Turn("user", AutoInstruction, FALSE)
    /\ messages[3] = Turn("user", <<"a">>, TRUE)

(***************************************************************************)
(* The web front end (src/app.py): every /chat request runs generate() on  *)
(* the one module-level chat_session.  A request is "idle" until it is     *)
(* served, at "round" while its completion request is streamed, at "auto"  *)
(* while _generate_auto_response is streamed, and "done" when generate()   *)
(* has ended.  A step runs from one wait on the network to the next.       *)
(***************************************************************************)
\* What a stream can bring the route: a reply, no content, or a failure.
WebOutcomes == {<<"a">>, <<>>, ApiError}

\* generate(): validation and append of the human turn.
WebChat(r, user_input) ==
    /\ web_pc[r] = "idle"
    /\ IF ValidateMessageSequence(messages, "user")
       THEN /\ messages' = Append(messages, Turn("user", user_input, FALSE))
            /\ web_pc' = [web_pc EXCEPT ![r] = "round"]
       ELSE /\ messages' = messages
            /\ web_pc' = [web_pc EXCEPT ![r] = "done"]
    /\ web_iter' = [web_iter EXCEPT ![r] = 0]
    /\ UNCHANGED <<auto_mode, auto_iterations, show_reasoning, pc, response_text,
                   auto_response, retry_count, calls, auto_rounds, requests_sent>>
    /\ UNCHANGED <<decoderVars, fileVars, roundVars>>

\* generate(): the stream of the assistant reply ends.  A failure leaves
\* through the except branch; otherwise the joined reply is appended as it
\* is and the loop is left or _generate_auto_response is called.
WebRound(r, outcome) ==
    /\ web_pc[r] = "round"
    /\ IF outcome = ApiError
       THEN /\ messages' = messages
            /\ web_pc' = [web_pc EXCEPT ![r] = "done"]
       ELSE /\ messages' = Append(messages, Turn("assistant", outcome, FALSE))
            /\ web_pc' = [web_pc EXCEPT ![r] =
                   IF ~auto_mode \/ web_iter[r] >= max_auto_iterations
                   THEN "done"
                   ELSE IF ValidateMessageSequence(messages', "user")
                        THEN "auto" ELSE "done"]
    /\ UNCHANGED <<auto_mode, auto_iterations, show_reasoning, pc, response_text,
                   auto_response, retry_count, calls, auto_rounds, requests_sent, web_iter>>
    /\ UNCHANGED <<decoderVars, fileVars, roundVars>>

\* generate(): _generate_auto_response returns; the loop is left on a falsy
\* result, otherwise the auto turn is appended and the next round begins.
WebAuto(r, outcome) ==
    /\ web_pc[r] = "auto"
    /\ IF outcome = ApiError \/ Falsy(Strip(outcome))
       THEN /\ messages' = messages
            /\ web_pc' = [web_pc EXCEPT ![r] = "done"]
            /\ web_iter' = web_iter
       ELSE /\ messages' = Append(messages, Turn("user", Strip(outcome), TRUE))
            /\ web_pc' = [web_pc EXCEPT ![r] = "round"]
            /\ web_iter' = [web_iter EXCEPT ![r] = web_iter[r] + 1]
    /\ UNCHANGED <<auto_mode, auto_iterations, show_reasoning, pc, response_text,
                   auto_response, retry_count, calls, auto_rounds, requests_sent>>
    /\ UNCHANGED <<decoderVars, fileVars, roundVars>>

\* No /chat request is between its first and its last step.
NoRequestRunning == \A r \in Requests : web_pc[r] \in {"idle", "done"}

\* Requests served one after the other.
WebSerialNext ==
    \/ \E r \in Requests, user_input \in UserInputs :
           NoRequestRunning /\ WebChat(r, user_input)
    \/ \E r \in Requests, outcome \in WebOutcomes : WebRound(r, outcome)
    \/ \E r \in Requests, outcome \in WebOutcomes : WebAuto(r, outcome)

SpecWebSerial == Init /\ [][WebSerialNext]_vars

\* Requests served by a threaded server: a request can be taken up while
\* another one waits on the network.
WebNext ==
    \/ \E r \in Requests, user_input \in UserInputs : WebChat(r, user_input)
    \/ \E r \in Requests, outcome \in WebOutcomes : WebRound(r, outcome)
    \/ \E r \in Requests, outcome \in WebOutcomes : WebAuto(r, outcome)

SpecWeb == Init /\ [][WebNext]_vars

\* C19: once a /chat exchange has ended, by an exception or not, the shared
\* history does not end with a user turn, so the next /chat request passes
\* role validation.
C19_WebNoDanglingUserTurn ==
    NoRequestRunning => LastRole(messages) # "user"

\* The requests whose completion request or auto-response request is open.
InFlight == {r \in Requests : web_pc[r] \in {"round", "auto"}}

\* C20: at most one request to the completion endpoint is in flight at any
\* time, and no two adjacent turns of the shared history have the same role.
C20_WebRequestsNeverInterleave ==
    /\ Cardinality(InFlight) <= 1
    /\ \A i \in 1..(Len(messages) - 1) : messages[i].role # messages[i + 1].role

(***************************************************************************)
(* The iteration count at the entry of chat().                             *)
(***************************************************************************)
\* C13: a chat() call that appends its human turn sets auto_iterations to 0,
\* whatever it was; a call rejected by validation leaves auto_iterations as
\* it was.
C13_IterationsResetOnHumanTurn ==
    [][(pc = "idle" /\ calls' = calls + 1) =>
          IF ValidateMessageSequence(messages, "user")
          THEN /\ Len(messages') = Len(messages) + 1
               /\ messages'[Len(messages')].role = "user"
               /\ ~messages'[Len(messages')].is_auto_generated
               /\ auto_iterations' = 0
          ELSE /\ pc' = "idle"
               /\ auto_iterations' = auto_iterations]_vars

\* A second call was rejected (it returned without a round and the history no
\* longer ends with a user turn) and the count left by the first call stands.
C13_Witness ==
    /\ pc = "idle"
    /\ calls = 2
    /\ response_text = NoneValue
    /\ LastRole(messages) = "assistant"
    /\ auto_iterations > 0

(***************************************************************************)
(* When the auto loop runs.                                                *)
(***************************************************************************)
\* C18: an auto-response request is issued only with auto_mode on, fewer than
\* max_auto_iterations automatic turns made and a non-empty reply from the
\* round before; with auto_mode off a call appends its human turn, then at
\* most one assistant turn, and stops; a round that yields no content ends
\* the call.
C18_LoopRunsOnlyWhileEnabled ==
    [][/\ (pc' = "generate_auto" /\ pc # "generate_auto") =>
              /\ auto_mode
              /\ auto_iterations < max_auto_iterations
              /\ ~Falsy(response_text)
       /\ (~auto_mode /\ pc = "idle" /\ pc' # "idle") =>
              /\ pc' = "first_round"
              /\ messages' = Append(messages, messages'[Len(messages')])
              /\ ~messages'[Len(messages')].is_auto_generated
       /\ (~auto_mode /\ pc = "first_round") =>
              /\ pc' \in {"idle", "auto_decide"}
              /\ \/ messages' = messages
                 \/ messages' = Append(messages, Turn("assistant", response_text', FALSE))
       /\ (~auto_mode /\ pc = "auto_decide") =>
              /\ pc' = "idle"
              /\ messages' = messages
       /\ (~auto_mode /\ pc # "idle") => ~auto_mode'
       /\ ((pc = "first_round" \/ pc = "assistant_round") /\ Falsy(response_text')) =>
              /\ pc' = "idle"
              /\ messages' = messages]_vars

\* A call made with auto_mode off has ended after one reply: the history is
\* the human turn and the assistant turn.
C18_Witness ==
    /\ pc = "idle"
    /\ ~auto_mode
    /\ calls = 1
    /\ ~Falsy(response_text)
    /\ Len(messages) = 2
    /\ messages[1].role = "user"
    /\ messages[2].role = "assistant"

(***************************************************************************)
(* Termination of chat().  Every stream is finite, so each request of a    *)
(* running call returns and the single thread takes the call's next step.  *)
(***************************************************************************)
\* The steps of a call that has passed its entry.
RunningStep ==
    \/ \E outcome \in Outcomes : FirstRound(outcome)
    \/ AutoDecide
    \/ \E outcome \in Outcomes : GenerateAuto(outcome)
    \/ \E outcome \in Outcomes : AssistantRound(outcome)

SpecChatFair == Init /\ [][ChatStep]_vars /\ WF_vars(RunningStep)

\* The most requests one call can open: the first round, then an
\* auto-response request and a completion round per automatic turn.
MostRequests == 1 + 2 * max_auto_iterations

\* C21: a pass of the auto loop leaves the loop or adds one to
\* auto_iterations, which stays within max_auto_iterations; the retry counter
\* stays within max_auto_retries; a call opens at most MostRequests requests;
\* and every call that was entered returns.
C21_CallTerminates ==
    /\ [][/\ pc = "generate_auto" =>
                 \/ pc' = "idle"
                 \/ /\ auto_iterations' = auto_iterations + 1
                    /\ auto_iterations' <= max_auto_iterations
          /\ retry_count' <= max_auto_retries
          /\ requests_sent' <= MostRequests]_vars
    /\ (pc # "idle") ~> (pc = "idle")

\* A call has opened the most requests it can and has returned.
C21_Witness ==
    /\ pc = "idle"
    /\ requests_sent = MostRequests
    /\ auto_iterations = max_auto_iterations

(***************************************************************************)
(* The iteration count in every state.                                     *)
(***************************************************************************)
\* The turns after the last human user turn.
RECURSIVE SinceLastHuman(_)
SinceLastHuman(msgs) ==
    IF msgs = <<>> \/ (msgs[Len(msgs)].role = "user" /\ ~msgs[Len(msgs)].is_auto_generated)
    THEN <<>>
    ELSE Append(SinceLastHuman(SubSeq(msgs, 1, Len(msgs) - 1)), msgs[Len(msgs)])

\* C22: auto_iterations is between 0 and max_auto_iterations in every state,
\* and while a call is running it is the number of auto-generated user turns
\* appended since the last human user turn.
C22_IterationCountInvariant ==
    /\ auto_iterations >= 0
    /\ auto_iterations <= max_auto_iterations
    /\ pc # "idle" =>
           auto_iterations =
               Len(SelectSeq(SinceLastHuman(messages),
                             LAMBDA m : m.role = "user" /\ m.is_auto_generated))

\* A second call runs with the count at its maximum while the history also
\* holds an auto-generated turn from before the call's human turn.
C22_Witness ==
    /\ pc = "auto_decide"
    /\ calls = 2
    /\ auto_iterations = max_auto_iterations
    /\ Len(SelectSeq(messages, LAMBDA m : m.is_auto_generated)) > max_auto_iterations

====
